---- MODULE Spec2Model ----
(***************************************************************************)
(* Invoice classification and extraction pipeline.                         *)
(*                                                                         *)
(* The model follows the TypeScript sources: the classifier                *)
(* (classifyInvoice), the text pipeline (parseInvoice, in its four         *)
(* variants) and the image pipeline (parseInvoiceImageBase64).  The        *)
(* language-model backend is the environment: every gateway call is        *)
(* answered by one outcome drawn from a bounded set of outcomes (a thrown  *)
(* error, a response without content, content that is not JSON, or a JSON  *)
(* value).                                                                 *)
(*                                                                         *)
(* Numbers: confidences are kept in hundredths (0.95 is 95, 1 is 100), so  *)
(* that the comparisons of the code are integer comparisons; amounts are   *)
(* integers.                                                               *)
(***************************************************************************)
EXTENDS Integers, Sequences, FiniteSets, TLC

VARIABLES
    op,              \* the exported function that was called
    pc,              \* where the call is: idle, waiting for a gateway reply, settled
    skipClassification, \* parseInvoice's third parameter
    image,           \* the arguments of the image pipeline or of parseDocuments
    apiKeySet,       \* whether process.env.OPENAI_API_KEY is set
    classification,  \* parseInvoice's local `classification`
    calls,           \* the gateway calls issued so far, in order
    reply,           \* the outcome of the gateway call the called function itself awaited
    result,          \* the value the returned promise resolved with
    error,           \* the message of the error the promise rejected with
    log,             \* console.warn / console.error messages emitted
    fileReads,       \* the paths read with readFileSync, in order
    req,             \* the HTTP request an API handler is serving
    res,             \* the HTTP response the handler sent, with what it logged
    page             \* the upload page: its React state, the file chosen in the
                     \* input, the FileReaders at work and the request in flight

vars == <<op, pc, skipClassification, image, apiKeySet, classification, calls,
          reply, result, error, log, fileReads, req, res, page>>

(***************************************************************************)
(* Bounds of the model.                                                    *)
(***************************************************************************)
\* the longest `items` array an extraction reply carries
MaxItems == 1
\* the longest `possibleTypes` array a classification reply carries
MaxAlternates == 1
\* the longest list of paths handed to parseDocuments
MaxBatch == 3
\* the number of times the user picks a file on the upload page
MaxSelections == 3

(***************************************************************************)
(* JavaScript values.  A value is a record tagged with its typeof-like     *)
(* kind; `undefined` is what reading an absent property yields.            *)
(***************************************************************************)
JUndef == [k |-> "undefined"]
JNull == [k |-> "null"]
JStr(s) == [k |-> "string", v |-> s]
JNum(n) == [k |-> "number", v |-> n]
JArr(a) == [k |-> "array", v |-> a]
JBool(b) == [k |-> "boolean", v |-> b]

\* ToBoolean: what `!x` and `x || y` test
Truthy(x) ==
    CASE x.k = "undefined" -> FALSE
      [] x.k = "null" -> FALSE
      [] x.k = "string" -> x.v # ""
      [] x.k = "number" -> x.v # 0
      [] x.k = "boolean" -> x.v
      [] OTHER -> TRUE

\* a || b
Or(a, b) == IF Truthy(a) THEN a ELSE b

(***************************************************************************)
(* enum InvoiceType                                                        *)
(***************************************************************************)
STANDARD == "standard"
PURCHASE_ORDER == "purchase_order"
RECEIPT == "receipt"
PROFORMA == "proforma"
CREDIT_NOTE == "credit_note"
UNKNOWN == "unknown"

\* Object.values(InvoiceType)
InvoiceType == {STANDARD, PURCHASE_ORDER, RECEIPT, PROFORMA, CREDIT_NOTE, UNKNOWN}

\* String.prototype.toUpperCase on the enum's values
toUpperCase(t) ==
    CASE t = STANDARD -> "STANDARD"
      [] t = PURCHASE_ORDER -> "PURCHASE_ORDER"
      [] t = RECEIPT -> "RECEIPT"
      [] t = PROFORMA -> "PROFORMA"
      [] t = CREDIT_NOTE -> "CREDIT_NOTE"
      [] t = UNKNOWN -> "UNKNOWN"
      [] t = "bogus" -> "BOGUS"
      [] OTHER -> t

(***************************************************************************)
(* Error messages                                                          *)
(***************************************************************************)
ErrGateway == "Connection error."
ErrNoContentClassification == "No content returned from OpenAI for classification"
ErrNoContent == "No content returned from OpenAI"
ErrSyntax == "SyntaxError: Unexpected token in JSON"
ErrType == "TypeError: Cannot read or set properties"
ErrMissingFields == "Invoice parsing failed: Missing required fields"
ErrApiKey == "OpenAI API key is required. Set OPENAI_API_KEY environment variable or provide the key as a parameter."
ErrNoImage == "Either base64Image or imagePath must be provided"
ErrNoFile == "ENOENT: no such file or directory"

(***************************************************************************)
(* Console messages                                                        *)
(***************************************************************************)
WarnInvalidType == "Classification returned invalid type"
WarnInvalidConfidence == "Classification returned invalid confidence"
LogClassifyError == "Error classifying invoice:"
WarnMissingText == "Warning: Some important invoice fields are missing from the parsing result"
WarnMissingImage == "Warning: Some key invoice fields could not be extracted from the image"
LogImageError == "Error parsing invoice image:"

(***************************************************************************)
(* What the backend may answer to the classification call.                 *)
(***************************************************************************)
\* the `type` property of a classification reply
ReplyTypes ==
    {JStr(t) : t \in InvoiceType} \cup {JStr("bogus"), JStr("STANDARD"), JUndef, JNull}

\* the `confidence` property of a classification reply, in hundredths
ReplyConfidences ==
    {JNum(n) : n \in {-50, 0, 50, 100, 200}} \cup {JStr("0.9"), JUndef, JNull}

\* sequences over S of length at most n
RECURSIVE SeqsUpTo(_, _)
SeqsUpTo(S, n) ==
    IF n = 0 THEN {<<>>}
    ELSE LET shorter == SeqsUpTo(S, n - 1)
         IN shorter \cup {Append(s, x) : s \in shorter, x \in S}

\* the `possibleTypes` property of a classification reply
ReplyPossibleTypes ==
    {JUndef} \cup {JArr(a) : a \in SeqsUpTo({RECEIPT, PROFORMA}, MaxAlternates) \ {<<>>}}

\* JSON values the classification content can denote
ClassificationJson ==
    {[k |-> "object", type |-> t, confidence |-> c, possibleTypes |-> p] :
        t \in ReplyTypes, c \in ReplyConfidences, p \in ReplyPossibleTypes}
    \cup {[k |-> "array"], [k |-> "null"], [k |-> "number"], [k |-> "string"]}

\* message.content of a gateway response: null, "", text that is not JSON, or JSON text
ContentOf(jsons) ==
    {[k |-> "null"], [k |-> "empty"], [k |-> "notjson"]}
    \cup {[k |-> "json", json |-> j] : j \in jsons}

\* outcome of client.chat.completions.create: it throws, it returns a response
\* without choices, or it returns a response with a message
OutcomesOf(jsons) ==
    {[k |-> "throws"], [k |-> "nochoices"]}
    \cup {[k |-> "response", content |-> c] : c \in ContentOf(jsons)}

ClassificationOutcomes == OutcomesOf(ClassificationJson)

NoReply == [k |-> "none"]

(***************************************************************************)
(* classifyInvoice                                                         *)
(***************************************************************************)
\* variant: the type is compared without regard to case
IsInvoiceType_IgnoringCase(x) == x.k = "string" /\ x.v \in InvoiceType \cup {"STANDARD"}

\* Object.values(InvoiceType).includes(x): strict equality with an enum value
IsInvoiceType(x) == x.k = "string" /\ x.v \in InvoiceType

\* variant: the upper limit is not checked
InvalidConfidence_NoUpperLimit(c) == c.k # "number" \/ c.v < 0

\* variant: the lower limit is not checked
InvalidConfidence_NoLowerLimit(c) == c.k # "number" \/ c.v > 100

\* variant: a confidence under the 0.7 threshold is treated as invalid
InvalidConfidence_Threshold(c) == c.k # "number" \/ c.v < 70 \/ c.v > 100

\* typeof c !== 'number' || c < 0 || c > 1
InvalidConfidence(c) == c.k # "number" \/ c.v < 0 \/ c.v > 100

\* reading a property of a parsed JSON value: absent properties, and the
\* properties of arrays and primitives, read as undefined
GetProp(j, name) == IF j.k = "object" THEN j[name] ELSE JUndef

\* variant: only null counts as no content
NoContent_NullOnly(content) == content.k = "null"

\* !content
NoContent(content) == content.k \in {"null", "empty"}

\* variant: text that is not JSON parses to null instead of throwing
JSONParseThrows_EmptyOnly(content) == content.k = "empty"

\* JSON.parse(content) throws a SyntaxError on text that is not JSON, the empty
\* string included; null is converted to the text "null" first
JSONParseThrows(content) == content.k \in {"notjson", "empty"}

\* JSON.parse(content), when it does not throw
JSONParse(content) == IF content.k = "json" THEN content.json ELSE [k |-> "null"]

\* The validation of the parsed reply and the value built from it.  A null
\* reply has no properties to read and a primitive takes no property
\* assignment (module code is strict): both throw a TypeError.
ValidateClassification(parsed) ==
    LET t == GetProp(parsed, "type")
        c == GetProp(parsed, "confidence")
        badType == ~IsInvoiceType(t)
        badConf == InvalidConfidence(c)
        warns == (IF badType THEN {WarnInvalidType} ELSE {})
                 \cup (IF badConf THEN {WarnInvalidConfidence} ELSE {})
    IN  IF parsed.k = "null" THEN [threw |-> TRUE, error |-> ErrType, log |-> {}]
        ELSE IF parsed.k \in {"number", "string"} /\ badType
             THEN [threw |-> TRUE, error |-> ErrType, log |-> {WarnInvalidType}]
        ELSE IF parsed.k \in {"number", "string"} /\ badConf
             THEN [threw |-> TRUE, error |-> ErrType, log |-> {WarnInvalidConfidence}]
        ELSE [threw |-> FALSE,
              value |-> [k |-> "object",
                         type |-> IF badType THEN JStr(UNKNOWN) ELSE t,
                         confidence |-> IF badConf THEN JNum(0) ELSE c],
              log |-> warns]

\* the body of classifyInvoice's try block, given the outcome of its gateway call
ClassifyTry(outcome) ==
    IF outcome.k = "throws" THEN [threw |-> TRUE, error |-> ErrGateway, log |-> {}]
    ELSE IF outcome.k = "nochoices" THEN [threw |-> TRUE, error |-> ErrType, log |-> {}]
    ELSE IF NoContent(outcome.content)
         THEN [threw |-> TRUE, error |-> ErrNoContentClassification, log |-> {}]
    ELSE IF JSONParseThrows(outcome.content)
         THEN [threw |-> TRUE, error |-> ErrSyntax, log |-> {}]
    ELSE ValidateClassification(JSONParse(outcome.content))

\* variant: the catch block rethrows
ClassifyCatch_Rethrow(thrown) ==
    [settled |-> "rejected", error |-> thrown.error,
     log |-> thrown.log \cup {LogClassifyError}]

\* variant: the catch block falls back to the standard type
ClassifyCatch_Standard(thrown) ==
    [settled |-> "resolved",
     value |-> [k |-> "object", type |-> JStr(STANDARD), confidence |-> JNum(0)],
     log |-> thrown.log \cup {LogClassifyError}]

\* classifyInvoice's catch block: what the promise settles with after `thrown`
ClassifyCatch(thrown) ==
    [settled |-> "resolved",
     value |-> [k |-> "object", type |-> JStr(UNKNOWN), confidence |-> JNum(0)],
     log |-> thrown.log \cup {LogClassifyError}]

\* classifyInvoice(client, invoiceText), given the outcome of its gateway call
classifyInvoice(outcome) ==
    LET r == ClassifyTry(outcome)
    IN  IF r.threw THEN ClassifyCatch(r)
        ELSE [settled |-> "resolved", value |-> r.value, log |-> r.log]

(***************************************************************************)
(* What the backend may answer to the extraction call.                     *)
(***************************************************************************)
\* line items; the amount is not quantity * unitPrice, which nothing checks
LineItems ==
    {[description |-> "Hosting", quantity |-> 3, unitPrice |-> 10, amount |-> 25]}

\* JSON objects the extraction content can denote: every property may be absent
ExtractionObjects ==
    {[k |-> "object", invoiceNumber |-> a, invoiceDate |-> b, vendorName |-> c,
      items |-> d, subtotal |-> e, totalAmount |-> f, currency |-> g,
      classification |-> h] :
        a \in {JUndef, JStr(""), JStr("INV-2023-456")},
        b \in {JUndef, JStr("2025-03-25")},
        c \in {JUndef, JStr("ABC Web Services"), JStr("UNKNOWN")},
        d \in {JUndef} \cup {JArr(i) : i \in SeqsUpTo(LineItems, MaxItems)},
        e \in {JUndef, JNum(0), JNum(90)},
        f \in {JUndef, JNum(0), JNum(100)},
        g \in {JUndef, JNull, JStr("EUR")},
        h \in {JUndef, JStr("forged")}}

\* JSON values the extraction content can denote
ExtractionJson ==
    ExtractionObjects \cup {[k |-> "array"], [k |-> "null"], [k |-> "number"], [k |-> "string"]}

ExtractionOutcomes == OutcomesOf(ExtractionJson)

\* new Date().toISOString().split('T')[0]
Today == JStr("2026-11-03")

\* an array is an object too: its named properties are absent until assigned
AsObject(j) ==
    IF j.k = "object" THEN j
    ELSE [k |-> j.k, invoiceNumber |-> JUndef, invoiceDate |-> JUndef,
          vendorName |-> JUndef, items |-> JUndef, subtotal |-> JUndef,
          totalAmount |-> JUndef, currency |-> JUndef, classification |-> JUndef]

(***************************************************************************)
(* parseInvoice (with classification and default-filling)                  *)
(***************************************************************************)
GenericPrompt ==
    "You are an expert invoice parser. Extract structured data as JSON from the provided invoice text."

ClassifierPrompt == "You are an expert invoice classifier."

\* variant: the type hint is given only for a confident classification
SelectPrompt_ConfidentOnly(cls) ==
    IF Truthy(cls) /\ cls.type # JStr(UNKNOWN) /\ cls.confidence.v >= 70
    THEN <<GenericPrompt, " This is a ", toUpperCase(cls.type.v), " type invoice.">>
    ELSE <<GenericPrompt>>

\* the system prompt of the extraction call, as the pieces it is concatenated from
SelectPrompt(cls) ==
    IF Truthy(cls) /\ cls.type # JStr(UNKNOWN)
    THEN <<GenericPrompt, " This is a ", toUpperCase(cls.type.v), " type invoice.">>
    ELSE <<GenericPrompt>>

\* classification.type.toUpperCase() throws when the type is not a string
PromptThrows(cls) ==
    Truthy(cls) /\ cls.type # JStr(UNKNOWN) /\ cls.type.k # "string"

\* if (classification) parsedInvoice.classification = classification
\* variant: a classification property of the reply is kept
AttachClassification_KeepReply(parsed, cls) ==
    IF Truthy(cls) THEN [parsed EXCEPT !.classification = Or(@, cls)] ELSE parsed

\* if (classification) parsedInvoice.classification = classification
AttachClassification(parsed, cls) ==
    IF Truthy(cls) THEN [parsed EXCEPT !.classification = cls] ELSE parsed

\* variant: totalAmount is not defaulted
ApplyDefaults_NoTotal(parsed) ==
    LET p1 == [parsed EXCEPT !.invoiceNumber = Or(@, JStr("UNKNOWN"))]
        p2 == [p1 EXCEPT !.vendorName = Or(@, JStr("UNKNOWN"))]
        p4 == [p2 EXCEPT !.currency = Or(@, JStr("USD"))]
        p5 == [p4 EXCEPT !.items = Or(@, JArr(<<>>))]
        p6 == [p5 EXCEPT !.invoiceDate = Or(@, Today)]
    IN  [p6 EXCEPT !.subtotal = Or(@, p6.totalAmount)]

\* variant: subtotal is taken from totalAmount before totalAmount is defaulted
ApplyDefaults_SubtotalFirst(parsed) ==
    LET p0 == [parsed EXCEPT !.subtotal = Or(@, parsed.totalAmount)]
        p1 == [p0 EXCEPT !.invoiceNumber = Or(@, JStr("UNKNOWN"))]
        p2 == [p1 EXCEPT !.vendorName = Or(@, JStr("UNKNOWN"))]
        p3 == [p2 EXCEPT !.totalAmount = Or(@, JNum(0))]
        p4 == [p3 EXCEPT !.currency = Or(@, JStr("USD"))]
        p5 == [p4 EXCEPT !.items = Or(@, JArr(<<>>))]
    IN  [p5 EXCEPT !.invoiceDate = Or(@, Today)]

\* variant: subtotal is always set to totalAmount
ApplyDefaults_SubtotalOverwritten(parsed) ==
    LET p1 == [parsed EXCEPT !.invoiceNumber = Or(@, JStr("UNKNOWN"))]
        p2 == [p1 EXCEPT !.vendorName = Or(@, JStr("UNKNOWN"))]
        p3 == [p2 EXCEPT !.totalAmount = Or(@, JNum(0))]
        p4 == [p3 EXCEPT !.currency = Or(@, JStr("USD"))]
        p5 == [p4 EXCEPT !.items = Or(@, JArr(<<>>))]
        p6 == [p5 EXCEPT !.invoiceDate = Or(@, Today)]
    IN  [p6 EXCEPT !.subtotal = p6.totalAmount]

\* the default-filling assignments, in the order of the code
ApplyDefaults(parsed) ==
    LET p1 == [parsed EXCEPT !.invoiceNumber = Or(@, JStr("UNKNOWN"))]
        p2 == [p1 EXCEPT !.vendorName = Or(@, JStr("UNKNOWN"))]
        p3 == [p2 EXCEPT !.totalAmount = Or(@, JNum(0))]
        p4 == [p3 EXCEPT !.currency = Or(@, JStr("USD"))]
        p5 == [p4 EXCEPT !.items = Or(@, JArr(<<>>))]
        p6 == [p5 EXCEPT !.invoiceDate = Or(@, Today)]
    IN  [p6 EXCEPT !.subtotal = Or(@, p6.totalAmount)]

\* the low-confidence warning
MissingWarning(p, message) ==
    IF p.invoiceNumber = JStr("UNKNOWN") \/ p.vendorName = JStr("UNKNOWN")
    THEN {message} ELSE {}

\* parseInvoice from the return of its extraction call to the settling of its promise
ParseInvoiceSettle(outcome, cls) ==
    IF outcome.k = "throws" THEN [settled |-> "rejected", error |-> ErrGateway, log |-> {}]
    ELSE IF outcome.k = "nochoices"
         THEN [settled |-> "rejected", error |-> ErrType, log |-> {}]
    ELSE IF NoContent(outcome.content)
         THEN [settled |-> "rejected", error |-> ErrNoContent, log |-> {}]
    ELSE IF JSONParseThrows(outcome.content)
         THEN [settled |-> "rejected", error |-> ErrSyntax, log |-> {}]
    ELSE IF JSONParse(outcome.content).k \in {"null", "number", "string"}
         THEN [settled |-> "rejected", error |-> ErrType, log |-> {}]
    ELSE LET p == ApplyDefaults(AttachClassification(AsObject(JSONParse(outcome.content)), cls))
         IN  [settled |-> "resolved", value |-> p, log |-> MissingWarning(p, WarnMissingText)]

(***************************************************************************)
(* parseInvoice (the variants that validate instead of default-filling)    *)
(***************************************************************************)
\* !invoice.invoiceNumber || !invoice.vendorName || !invoice.totalAmount
MissingRequired(p) ==
    ~Truthy(p.invoiceNumber) \/ ~Truthy(p.vendorName) \/ ~Truthy(p.totalAmount)

ParseInvoiceValidating(outcome) ==
    IF outcome.k = "throws" THEN [settled |-> "rejected", error |-> ErrGateway, log |-> {}]
    ELSE IF outcome.k = "nochoices"
         THEN [settled |-> "rejected", error |-> ErrType, log |-> {}]
    ELSE IF NoContent(outcome.content)
         THEN [settled |-> "rejected", error |-> ErrNoContent, log |-> {}]
    ELSE IF JSONParseThrows(outcome.content)
         THEN [settled |-> "rejected", error |-> ErrSyntax, log |-> {}]
    ELSE IF JSONParse(outcome.content).k = "null"
         THEN [settled |-> "rejected", error |-> ErrType, log |-> {}]
    ELSE IF MissingRequired(AsObject(JSONParse(outcome.content)))
         THEN [settled |-> "rejected", error |-> ErrMissingFields, log |-> {}]
    ELSE [settled |-> "resolved", value |-> JSONParse(outcome.content), log |-> {}]

(***************************************************************************)
(* parseInvoiceImageBase64                                                 *)
(***************************************************************************)
ImagePrompt ==
    "You are an expert invoice parser. Extract structured data from the provided invoice image into the exact format specified in the user's instruction. Make sure to include all key fields if they are present in the image."

BasicPrompt ==
    "You are an expert invoice parser. Extract structured data from the provided invoice text."

\* the files readFileSync finds
Files == {"invoice.png", "scan.PDF"}

\* getMimeType: by the lower-cased extension of the path
getMimeType(path) ==
    CASE path \in {"invoice.png"} -> "image/png"
      [] path \in {"missing.jpg"} -> "image/jpeg"
      [] path \in {"scan.PDF"} -> "application/pdf"
      [] OTHER -> "application/octet-stream"

\* readFileSync(path).toString('base64')
Base64Of(path) == <<"base64", path>>

\* the arguments parseInvoiceImageBase64 may be called with
ImageArgs ==
    [base64Image : {JNull, JStr(""), JStr("iVBORw0KGgo=")},
     imagePath : {JUndef, JStr("invoice.png"), JStr("scan.PDF"), JStr("missing.jpg")},
     mimeType : {JUndef, JStr("image/png")}]

NoImage == [base64Image |-> JNull, imagePath |-> JUndef, mimeType |-> JUndef]

\* the image source chosen: the data and type sent, the file read, or the error thrown
\* variant: the file at imagePath is preferred to base64Image
ImageSource_PathFirst(a) ==
    IF Truthy(a.imagePath)
    THEN IF a.imagePath.v \in Files
         THEN [threw |-> FALSE, reads |-> <<a.imagePath.v>>,
               imageData |-> Base64Of(a.imagePath.v),
               imageType |-> getMimeType(a.imagePath.v)]
         ELSE [threw |-> TRUE, reads |-> <<a.imagePath.v>>, error |-> ErrNoFile]
    ELSE IF Truthy(a.base64Image)
    THEN [threw |-> FALSE, reads |-> <<>>,
          imageData |-> <<"inline", a.base64Image.v>>,
          imageType |-> Or(a.mimeType, JStr("image/jpeg")).v]
    ELSE [threw |-> TRUE, reads |-> <<>>, error |-> ErrNoImage]

\* the image source chosen by the if / else if / else of the code
ImageSource(a) ==
    IF ~Truthy(a.base64Image) /\ Truthy(a.imagePath)
    THEN IF a.imagePath.v \in Files
         THEN [threw |-> FALSE, reads |-> <<a.imagePath.v>>,
               imageData |-> Base64Of(a.imagePath.v),
               imageType |-> getMimeType(a.imagePath.v)]
         ELSE [threw |-> TRUE, reads |-> <<a.imagePath.v>>, error |-> ErrNoFile]
    ELSE IF Truthy(a.base64Image)
    THEN [threw |-> FALSE, reads |-> <<>>,
          imageData |-> <<"inline", a.base64Image.v>>,
          imageType |-> Or(a.mimeType, JStr("image/jpeg")).v]
    ELSE [threw |-> TRUE, reads |-> <<>>, error |-> ErrNoImage]

\* the five default-filling assignments of the image pipeline
ApplyImageDefaults(parsed) ==
    LET p1 == [parsed EXCEPT !.invoiceNumber = Or(@, JStr("UNKNOWN"))]
        p2 == [p1 EXCEPT !.vendorName = Or(@, JStr("UNKNOWN"))]
        p3 == [p2 EXCEPT !.totalAmount = Or(@, JNum(0))]
        p4 == [p3 EXCEPT !.currency = Or(@, JStr("USD"))]
    IN  [p4 EXCEPT !.items = Or(@, JArr(<<>>))]

\* parseInvoiceImageBase64 from the return of its gateway call to the settling of
\* its promise; the catch block logs and rethrows
ParseImageSettle(outcome) ==
    IF outcome.k = "throws"
    THEN [settled |-> "rejected", error |-> ErrGateway, log |-> {LogImageError}]
    ELSE IF outcome.k = "nochoices"
         THEN [settled |-> "rejected", error |-> ErrType, log |-> {LogImageError}]
    ELSE IF NoContent(outcome.content)
         THEN [settled |-> "rejected", error |-> ErrNoContent, log |-> {LogImageError}]
    ELSE IF JSONParseThrows(outcome.content)
         THEN [settled |-> "rejected", error |-> ErrSyntax, log |-> {LogImageError}]
    ELSE IF JSONParse(outcome.content).k \in {"null", "number", "string"}
         THEN [settled |-> "rejected", error |-> ErrType, log |-> {LogImageError}]
    ELSE LET p == ApplyImageDefaults(AsObject(JSONParse(outcome.content)))
         IN  [settled |-> "resolved", value |-> p, log |-> MissingWarning(p, WarnMissingImage)]

(***************************************************************************)
(* The calls.  One exported function is called; each of its gateway calls  *)
(* is answered by the environment; the promise settles.                    *)
(***************************************************************************)
TextCall(system) == [system |-> system, user |-> <<"text", "invoiceText">>]

ImageCall(src) == [system |-> <<ImagePrompt>>, user |-> <<"image", src.imageType, src.imageData>>]

\* the variants of parseInvoice that validate: src/invoiceParser.ts, the class
\* InvoiceParser, and the variant that takes the API key
ValidatingVariants ==
    {"invoiceParser.parseInvoice", "InvoiceParser.parseInvoice", "parseInvoice(apiKey)"}

(***************************************************************************)
(* The API handlers: pages/api/parse-invoice and parse-invoice-image       *)
(***************************************************************************)
ErrMethod == "Method not allowed. Use POST instead."
ErrTextRequired == "Invoice text is required and must be a string"
ErrImageRequired == "Base64 image data is required and must be a string"
ErrMimeType == "If provided, mimeType must be a string"
ErrInitClient == "Failed to initialize OpenAI client. Check if OPENAI_API_KEY is set."
ErrDestructure == "TypeError: Cannot destructure property of 'req.body' as it is null."
LogClientError == "Error creating OpenAI client:"
LogTextHandlerError == "Error parsing invoice:"
LogImageHandlerError == "Error parsing invoice image:"

NoRequest == [handler |-> "none"]
NoResponse == [status |-> 0]

\* res.status(status).json({success: false, error}), after console.error of logged
Failure(status, message, logged) ==
    [status |-> status, body |-> [success |-> FALSE, error |-> message], logged |-> logged]

\* res.status(200).json({success: true, data})
Success(data) ==
    [status |-> 200, body |-> [success |-> TRUE, data |-> data], logged |-> {}]

\* the bodies of the requests to the text handler
TextBodies ==
    {JNull} \cup
    {[k |-> "object", invoiceText |-> t, skipClassification |-> s] :
        t \in {JUndef, JStr(""), JNum(42), JStr("invoiceText")},
        s \in {JBool(TRUE), JStr("true")}}

\* the bodies of the requests to the image handler
ImageBodies ==
    {JNull} \cup
    {[k |-> "object", base64Image |-> b, mimeType |-> m] :
        b \in {JUndef, JStr(""), JNum(42), JStr("iVBORw0KGgo=")},
        m \in {JUndef, JStr("image/png"), JNum(1)}}

TextRequests == [handler : {"parse-invoice"}, method : {"POST", "GET"}, body : TextBodies]
ImageRequests == [handler : {"parse-invoice-image"}, method : {"POST", "GET"}, body : ImageBodies]

\* variant: only falsy values are refused
NotAString_FalsyOnly(x) == ~Truthy(x)

\* !invoiceText || typeof invoiceText !== 'string'   (and the same for base64Image)
NotAString(x) == ~Truthy(x) \/ x.k # "string"

\* mimeType && typeof mimeType !== 'string'
BadMimeType(m) == Truthy(m) /\ m.k # "string"

\* the handler returns without calling the core
RespondEarly(response) ==
    /\ pc' = "responded"
    /\ res' = response
    /\ UNCHANGED <<op, skipClassification, image, apiKeySet, classification, calls,
                   reply, result, error, log, fileReads>>

\* variant: the message of the error caught is replaced by a fixed one
Completion_FixedMessage(handler) ==
    IF pc' = "resolved" THEN Success(result')
    ELSE IF pc' = "rejected"
    THEN Failure(500, "Unknown error occurred",
                 {IF handler = "parse-invoice" THEN LogTextHandlerError
                  ELSE LogImageHandlerError})
    ELSE NoResponse

\* what the handler sends once the promise of the core has settled: the record
\* with status 200, or the message of the error caught with status 500
Completion(handler) ==
    IF pc' = "resolved" THEN Success(result')
    ELSE IF pc' = "rejected"
    THEN Failure(500, error', {IF handler = "parse-invoice" THEN LogTextHandlerError
                                ELSE LogImageHandlerError})
    ELSE NoResponse

\* a step of the core: outside a handler nothing is sent; inside one, the
\* handler resumes when the awaited promise has settled and sends its response
HandlerResumes ==
    /\ page' = page
    /\ req' = req
    /\ res' = IF req = NoRequest THEN res ELSE Completion(req.handler)

(***************************************************************************)
(* The upload page (pages/index.tsx)                                       *)
(***************************************************************************)
\* the image files the user can pick, with their MIME types
PageFiles == {"invoice.png", "receipt.jpg"}
FileType(file) == IF file = "invoice.png" THEN "image/png" ELSE "image/jpeg"

Null == "null"
NoRequestInFlight == [file |-> Null]

\* the useState initial values (Null is null for the string-valued states,
\* JNull for invoiceResult); invoiceImage is named by the file whose base64
\* data it holds, selected is the file shown in the file input
InitialPage ==
    [invoiceResult |-> JNull, parsingError |-> Null, invoiceImage |-> Null,
     invoiceImageType |-> "", isParsingImage |-> FALSE,
     selected |-> Null, reading |-> {}, inflight |-> NoRequestInFlight,
     selections |-> 0]

\* what axios.post settles with: the handler's success envelope with the
\* record extracted from the image that was sent, a 200 response with
\* success: false, or a rejection (axios rejects on every status but 2xx)
PageOutcomes(sent) ==
    {[k |-> "success",
      data |-> [k |-> "object", of |-> sent.file, mimeType |-> sent.mimeType]],
     [k |-> "failure", error |-> "No content returned from OpenAI"],
     [k |-> "failure", error |-> ""],
     [k |-> "rejects", message |-> "Request failed with status code 500"]}

\* handleImageChange: the user picks a file in the file input
handleImageChange(file) ==
    /\ page.selections < MaxSelections
    /\ page' = [page EXCEPT !.invoiceResult = JNull,
                            !.parsingError = Null,
                            !.invoiceImageType = FileType(file),
                            !.reading = @ \cup {file},
                            !.selected = file,
                            !.selections = @ + 1]
    /\ UNCHANGED <<op, pc, skipClassification, image, apiKeySet, classification,
                   calls, reply, result, error, log, fileReads, req, res>>

\* reader.onload: a FileReader has read its file
readerOnload(file) ==
    /\ file \in page.reading
    /\ page' = [page EXCEPT !.invoiceImage = file, !.reading = @ \ {file}]
    /\ UNCHANGED <<op, pc, skipClassification, image, apiKeySet, classification,
                   calls, reply, result, error, log, fileReads, req, res>>

\* processInvoiceImage up to its await: the Parse button is clicked, which it
\* can be when an image is loaded and no request is in flight
processInvoiceImage ==
    /\ page.invoiceImage # Null
    /\ ~page.isParsingImage
    /\ page' = [page EXCEPT !.isParsingImage = TRUE,
                            !.parsingError = Null,
                            !.invoiceResult = JNull,
                            !.inflight = [file |-> page.invoiceImage,
                                          mimeType |-> page.invoiceImageType]]
    /\ UNCHANGED <<op, pc, skipClassification, image, apiKeySet, classification,
                   calls, reply, result, error, log, fileReads, req, res>>

\* processInvoiceImage from its await on: the request settles
processInvoiceImageResumes ==
    /\ page.inflight # NoRequestInFlight
    /\ \E outcome \in PageOutcomes(page.inflight) :
          page' = [page EXCEPT
                     !.invoiceResult = IF outcome.k = "success" THEN outcome.data ELSE @,
                     !.parsingError =
                         IF outcome.k = "success" THEN @
                         ELSE IF outcome.k = "rejects" THEN outcome.message
                         ELSE IF outcome.error # "" THEN outcome.error
                         ELSE "Failed to parse invoice image",
                     !.isParsingImage = FALSE,
                     !.inflight = NoRequestInFlight]
    /\ UNCHANGED <<op, pc, skipClassification, image, apiKeySet, classification,
                   calls, reply, result, error, log, fileReads, req, res>>

Init ==
    /\ op = "none"
    /\ pc = "idle"
    /\ skipClassification = FALSE
    /\ image = NoImage
    /\ apiKeySet \in BOOLEAN
    /\ classification = JUndef
    /\ calls = <<>>
    /\ reply = NoReply
    /\ result = JUndef
    /\ error = ""
    /\ log = {}
    /\ fileReads = <<>>
    /\ req = NoRequest
    /\ res = NoResponse
    /\ page = InitialPage

\* classifyInvoice(client, invoiceText) is called: it issues its gateway call
CallClassifyInvoice ==
    /\ pc = "idle"
    /\ op' = "classifyInvoice"
    /\ calls' = Append(calls, TextCall(<<ClassifierPrompt>>))
    /\ pc' = "classifying"
    /\ UNCHANGED <<skipClassification, image, apiKeySet, classification, reply,
                   result, error, log, fileReads>>

\* variant: the skip flag is ignored
CallParseInvoice_AlwaysClassify(skip) ==
    /\ pc = "idle"
    /\ op' = "parseInvoice"
    /\ skipClassification' = skip
    /\ calls' = Append(calls, TextCall(<<ClassifierPrompt>>))
    /\ pc' = "classifying"
    /\ UNCHANGED <<image, apiKeySet, classification, reply, result, error, log,
                   fileReads>>

\* parseInvoice(client, invoiceText, skip) is called: it runs up to its first await
CallParseInvoice(skip) ==
    /\ pc = "idle"
    /\ op' = "parseInvoice"
    /\ skipClassification' = skip
    /\ IF ~skip
       THEN /\ calls' = Append(calls, TextCall(<<ClassifierPrompt>>))
            /\ pc' = "classifying"
       ELSE /\ calls' = Append(calls, TextCall(SelectPrompt(JUndef)))
            /\ pc' = "extracting"
    /\ UNCHANGED <<image, apiKeySet, classification, reply, result, error, log,
                   fileReads>>

\* the classification call returns: classifyInvoice settles, and parseInvoice
\* runs on to its extraction call
ClassifyReturn ==
    /\ pc = "classifying"
    /\ \E outcome \in ClassificationOutcomes :
       LET r == classifyInvoice(outcome)
       IN  /\ reply' = IF op = "classifyInvoice" THEN outcome ELSE reply
           /\ log' = log \cup r.log
           /\ IF r.settled = "rejected"
              THEN /\ pc' = "rejected"
                   /\ error' = r.error
                   /\ UNCHANGED <<result, classification, calls>>
              ELSE IF op = "classifyInvoice"
              THEN /\ pc' = "resolved"
                   /\ result' = r.value
                   /\ UNCHANGED <<error, classification, calls>>
              ELSE IF PromptThrows(r.value)
              THEN /\ pc' = "rejected"
                   /\ error' = ErrType
                   /\ classification' = r.value
                   /\ UNCHANGED <<result, calls>>
              ELSE /\ pc' = "extracting"
                   /\ classification' = r.value
                   /\ calls' = Append(calls, TextCall(SelectPrompt(r.value)))
                   /\ UNCHANGED <<result, error>>
    /\ UNCHANGED <<op, skipClassification, image, apiKeySet, fileReads>>

\* the promise of the running call settles with r
Settle(r) ==
    /\ log' = log \cup r.log
    /\ IF r.settled = "resolved"
       THEN /\ pc' = "resolved"
            /\ result' = r.value
            /\ error' = error
       ELSE /\ pc' = "rejected"
            /\ error' = r.error
            /\ result' = result

\* variant: an extraction call that threw is issued once more
ExtractReturn_Retry ==
    /\ pc = "extracting"
    /\ op = "parseInvoice"
    /\ \E outcome \in ExtractionOutcomes :
          IF outcome.k = "throws" /\ Len(calls) < 3
          THEN /\ calls' = Append(calls, calls[Len(calls)])
               /\ UNCHANGED <<pc, reply, result, error, log>>
          ELSE /\ reply' = outcome
               /\ Settle(ParseInvoiceSettle(outcome, classification))
               /\ UNCHANGED calls
    /\ UNCHANGED <<op, skipClassification, image, apiKeySet, classification,
                   fileReads>>

\* parseInvoice's extraction call returns
ExtractReturn ==
    /\ pc = "extracting"
    /\ op = "parseInvoice"
    /\ \E outcome \in ExtractionOutcomes :
          /\ reply' = outcome
          /\ Settle(ParseInvoiceSettle(outcome, classification))
    /\ UNCHANGED <<op, skipClassification, image, apiKeySet, classification, calls,
                   fileReads>>

\* a validating variant of parseInvoice is called: it issues its only gateway call
CallParseInvoiceValidating(variant) ==
    /\ pc = "idle"
    /\ op' = variant
    /\ calls' = Append(calls, TextCall(<<BasicPrompt>>))
    /\ pc' = "extracting"
    /\ UNCHANGED <<skipClassification, image, apiKeySet, classification, reply,
                   result, error, log, fileReads>>

\* the gateway call of a validating variant returns
ValidatingReturn ==
    /\ pc = "extracting"
    /\ op \in ValidatingVariants
    /\ \E outcome \in ExtractionOutcomes :
          /\ reply' = outcome
          /\ Settle(ParseInvoiceValidating(outcome))
    /\ UNCHANGED <<op, skipClassification, image, apiKeySet, classification, calls,
                   fileReads>>

\* parseInvoiceImageBase64(base64Image, imagePath, mimeType) is called; dotenv says
\* what require('dotenv').config() does when the key is not in the environment
CallParseInvoiceImageBase64(a, dotenv) ==
    /\ pc = "idle"
    /\ op' = "parseInvoiceImageBase64"
    /\ image' = a
    /\ apiKeySet' = (apiKeySet \/ dotenv = "sets the key")
    /\ LET src == ImageSource(a)
           dotlog == IF ~apiKeySet /\ dotenv = "throws"
                     THEN {"Failed to load dotenv:"} ELSE {}
       IN  IF ~apiKeySet'
           THEN /\ pc' = "rejected"
                /\ error' = ErrApiKey
                /\ log' = log \cup dotlog
                /\ UNCHANGED <<calls, fileReads>>
           ELSE IF src.threw
           THEN /\ pc' = "rejected"
                /\ error' = src.error
                /\ log' = log \cup dotlog \cup {LogImageError}
                /\ fileReads' = fileReads \o src.reads
                /\ UNCHANGED calls
           ELSE /\ pc' = "extracting"
                /\ calls' = Append(calls, ImageCall(src))
                /\ fileReads' = fileReads \o src.reads
                /\ log' = log \cup dotlog
                /\ UNCHANGED error
    /\ UNCHANGED <<skipClassification, classification, reply, result>>

\* the gateway call of the image pipeline returns
ImageReturn ==
    /\ pc = "extracting"
    /\ op = "parseInvoiceImageBase64"
    /\ \E outcome \in ExtractionOutcomes :
          /\ reply' = outcome
          /\ Settle(ParseImageSettle(outcome))
    /\ UNCHANGED <<op, skipClassification, image, apiKeySet, classification, calls,
                   fileReads>>

(***************************************************************************)
(* parseDocuments (the batch entry point)                                  *)
(***************************************************************************)
\* the paths a batch is made of; "missing.jpg" and "gone.png" are not on disk
BatchPaths == Files \cup {"missing.jpg", "gone.png"}

BatchArgs == SeqsUpTo(BatchPaths, MaxBatch)

\* parseDocuments(imagePaths) is called: it creates the client, which throws
\* without an API key, and returns its empty `results` array
CallParseDocuments(imagePaths) ==
    /\ pc = "idle"
    /\ op' = "parseDocuments"
    /\ image' = [imagePaths |-> imagePaths]
    /\ IF ~apiKeySet
       THEN /\ pc' = "rejected"
            /\ error' = ErrApiKey
            /\ UNCHANGED result
       ELSE /\ pc' = "resolved"
            /\ result' = JArr(<<>>)
            /\ UNCHANGED error
    /\ UNCHANGED <<skipClassification, apiKeySet, classification, calls, reply,
                   log, fileReads>>

\* the text handler serves request r
HandleParseInvoice(r) ==
    /\ pc = "idle"
    /\ req' = r
    /\ page' = page
    /\ IF r.method # "POST"
       THEN RespondEarly(Failure(405, ErrMethod, {}))
       ELSE IF r.body.k = "null"
       THEN RespondEarly(Failure(500, ErrDestructure, {LogTextHandlerError}))
       ELSE IF NotAString(r.body.invoiceText)
       THEN RespondEarly(Failure(400, ErrTextRequired, {}))
       ELSE IF ~apiKeySet
       THEN RespondEarly(Failure(500, ErrInitClient, {LogClientError}))
       ELSE /\ CallParseInvoice(r.body.skipClassification = JBool(TRUE))
            /\ res' = Completion(r.handler)

\* the image handler serves request r
HandleParseInvoiceImage(r, dotenv) ==
    /\ pc = "idle"
    /\ req' = r
    /\ page' = page
    /\ IF r.method # "POST"
       THEN RespondEarly(Failure(405, ErrMethod, {}))
       ELSE IF r.body.k = "null"
       THEN RespondEarly(Failure(500, ErrDestructure, {LogImageHandlerError}))
       ELSE IF NotAString(r.body.base64Image)
       THEN RespondEarly(Failure(400, ErrImageRequired, {}))
       ELSE IF BadMimeType(r.body.mimeType)
       THEN RespondEarly(Failure(400, ErrMimeType, {}))
       ELSE /\ CallParseInvoiceImageBase64(
                  [base64Image |-> r.body.base64Image, imagePath |-> JUndef,
                   mimeType |-> r.body.mimeType], dotenv)
            /\ res' = Completion(r.handler)

Next ==
    \/ CallClassifyInvoice /\ HandlerResumes
    \/ \E skip \in BOOLEAN : CallParseInvoice(skip) /\ HandlerResumes
    \/ ClassifyReturn /\ HandlerResumes
    \/ ExtractReturn /\ HandlerResumes
    \/ \E variant \in ValidatingVariants :
          CallParseInvoiceValidating(variant) /\ HandlerResumes
    \/ ValidatingReturn /\ HandlerResumes
    \/ \E a \in ImageArgs, dotenv \in {"sets the key", "finds no key", "throws"} :
          CallParseInvoiceImageBase64(a, dotenv) /\ HandlerResumes
    \/ ImageReturn /\ HandlerResumes
    \/ \E imagePaths \in BatchArgs : CallParseDocuments(imagePaths) /\ HandlerResumes

Spec == Init /\ [][Next]_vars

\* the classifier alone
NextClassifier ==
    \/ CallClassifyInvoice /\ HandlerResumes
    \/ ClassifyReturn /\ HandlerResumes

SpecClassifier == Init /\ [][NextClassifier]_vars

\* the two API handlers, with the pipelines they call
NextHttp ==
    \/ \E r \in TextRequests : HandleParseInvoice(r)
    \/ \E r \in ImageRequests, dotenv \in {"sets the key", "finds no key", "throws"} :
          HandleParseInvoiceImage(r, dotenv)
    \/ ClassifyReturn /\ HandlerResumes
    \/ ExtractReturn /\ HandlerResumes
    \/ ImageReturn /\ HandlerResumes

SpecHttp == Init /\ [][NextHttp]_vars

\* the upload page: the user's events, the FileReaders and the request
NextPage ==
    \/ \E file \in PageFiles : handleImageChange(file)
    \/ \E file \in PageFiles : readerOnload(file)
    \/ processInvoiceImage
    \/ processInvoiceImageResumes

SpecPage == Init /\ [][NextPage]_vars

(***************************************************************************)
(* Properties                                                              *)
(***************************************************************************)
\* the promise of the called function has settled
Settled == pc \in {"resolved", "rejected"}

\* a call of classifyInvoice has settled on a gateway reply that is a JSON object
ClassifiedObject ==
    /\ op = "classifyInvoice"
    /\ Settled
    /\ reply.k = "response"
    /\ reply.content.k = "json"
    /\ reply.content.json.k = "object"

\* a value is a member of the enum
InEnum(x) == x.k = "string" /\ x.v \in InvoiceType

\* a value is a number in [0, 1]
InUnitInterval(x) == x.k = "number" /\ x.v >= 0 /\ x.v <= 100

\* a Classification whose type is in the enum and whose confidence is in [0, 1]
WellFormedClassification(c) ==
    /\ c.k = "object"
    /\ InEnum(c.type)
    /\ InUnitInterval(c.confidence)

\* C1: whatever the backend answers to the classification call, classifyInvoice
\* returns a type of the enum and a confidence in [0,1]; so does the
\* classification parseInvoice holds after its classification step.
C1_ClassificationWellFormed ==
    /\ (op = "classifyInvoice" /\ Settled) =>
          (pc = "resolved" /\ WellFormedClassification(result))
    /\ (op = "parseInvoice" /\ classification # JUndef) =>
          WellFormedClassification(classification)

\* C1 witness: a reply with a type outside the enum and a confidence above 1 was
\* answered by a well-formed classification
C1_Witness ==
    /\ ClassifiedObject
    /\ reply.content.json.type = JStr("bogus")
    /\ reply.content.json.confidence = JNum(200)
    /\ pc = "resolved"

\* C2 as claimed: a reply whose type is not in the enum yields UNKNOWN with
\* confidence 0, whatever confidence the reply carried.
C2_InvalidTypeForcesZeroConfidence ==
    (ClassifiedObject /\ ~InEnum(reply.content.json.type)) =>
        /\ pc = "resolved"
        /\ result.type = JStr(UNKNOWN)
        /\ result.confidence = JNum(0)

\* C2 amended: a reply whose type is not in the enum yields UNKNOWN; the
\* confidence is validated on its own: the reply's confidence when that is a
\* number in [0,1], and 0 otherwise.
C2_InvalidTypeYieldsUnknown ==
    (ClassifiedObject /\ ~InEnum(reply.content.json.type)) =>
        /\ pc = "resolved"
        /\ result.type = JStr(UNKNOWN)
        /\ result.confidence =
              IF InUnitInterval(reply.content.json.confidence)
              THEN reply.content.json.confidence ELSE JNum(0)

\* C2 witness: a reply with a type outside the enum and the valid confidence 0.5
C2_Witness ==
    /\ ClassifiedObject
    /\ reply.content.json.type = JStr("bogus")
    /\ reply.content.json.confidence = JNum(50)
    /\ pc = "resolved"
    /\ result.confidence = JNum(50)

\* C3: a reply whose confidence is not a number in [0,1] yields confidence 0,
\* and a type of the enum is kept.
C3_InvalidConfidenceYieldsZero ==
    (ClassifiedObject /\ ~InUnitInterval(reply.content.json.confidence)) =>
        /\ pc = "resolved"
        /\ result.confidence = JNum(0)
        /\ InEnum(reply.content.json.type) => result.type = reply.content.json.type

\* C3 witness: a negative confidence with a valid type
C3_Witness ==
    /\ ClassifiedObject
    /\ reply.content.json.type = JStr(RECEIPT)
    /\ reply.content.json.confidence = JNum(-50)
    /\ pc = "resolved"
    /\ result.type = JStr(RECEIPT)

FailedReply(r) ==
    \/ r.k \in {"throws", "nochoices"}
    \/ /\ r.k = "response"
       /\ \/ r.content.k \in {"null", "empty", "notjson"}
          \/ r.content.k = "json" /\ r.content.json.k = "null"

\* C5: classifyInvoice never rejects; on a thrown gateway error, on empty or null
\* content and on content that is not a JSON object it resolves to {UNKNOWN, 0}.
C5_ClassifierNeverRejects ==
    /\ op = "classifyInvoice" => pc # "rejected"
    /\ (op = "classifyInvoice" /\ Settled /\ FailedReply(reply)) =>
          /\ pc = "resolved"
          /\ result = [k |-> "object", type |-> JStr(UNKNOWN), confidence |-> JNum(0)]

\* C5 witness: the gateway call threw and the promise resolved
C5_Witness ==
    /\ op = "classifyInvoice"
    /\ reply.k = "throws"
    /\ pc = "resolved"

\* C6 as claimed: when the reply carries alternate types, the returned
\* classification lists them in possibleTypes.
C6_PossibleTypesExposed ==
    (/\ ClassifiedObject
     /\ pc = "resolved"
     /\ reply.content.json.possibleTypes.k = "array") =>
        /\ "possibleTypes" \in DOMAIN result
        /\ result.possibleTypes = reply.content.json.possibleTypes

\* the gateway calls that carry the classifier's instruction
ClassificationCalls == {i \in 1..Len(calls) : calls[i].system = <<ClassifierPrompt>>}

\* the extraction call of parseInvoice has been issued
ExtractionIssued == pc = "extracting" \/ (Settled /\ reply # NoReply)

\* C7: with skipClassification = true parseInvoice never invokes the classifier:
\* it makes exactly one gateway call, the extraction call, with the generic
\* instruction.
C7_SkipMakesOneGenericCall ==
    (op = "parseInvoice" /\ skipClassification) =>
        /\ pc \in {"extracting", "resolved", "rejected"}
        /\ ClassificationCalls = {}
        /\ Len(calls) = 1
        /\ calls[1].system = <<GenericPrompt>>
        /\ classification = JUndef
        /\ log \cap {WarnInvalidType, WarnInvalidConfidence, LogClassifyError} = {}

\* C7 witness: a skipping call resolved with a record
C7_Witness ==
    /\ op = "parseInvoice"
    /\ skipClassification
    /\ pc = "resolved"
    /\ Len(calls) = 1

\* the instruction the claim expects for a classification: a function of its type
ExpectedPrompt(cls) ==
    IF cls = JUndef \/ cls.type = JStr(UNKNOWN)
    THEN <<GenericPrompt>>
    ELSE <<GenericPrompt, " This is a ", toUpperCase(cls.type.v), " type invoice.">>

\* C8: the extraction instruction is the generic one when classification was
\* skipped or its type is UNKNOWN, and the generic one with a hint naming the
\* type otherwise, whatever the confidence.
C8_PromptDependsOnTypeOnly ==
    (op = "parseInvoice" /\ ExtractionIssued) =>
        /\ calls[Len(calls)].system = ExpectedPrompt(classification)
        /\ (classification # JUndef /\ classification.type # JStr(UNKNOWN)) =>
              /\ Len(calls[Len(calls)].system) = 4
              /\ calls[Len(calls)].system[3] \in
                    {"STANDARD", "PURCHASE_ORDER", "RECEIPT", "PROFORMA", "CREDIT_NOTE"}

\* C8 witness: a receipt classified with confidence 0.5 got the receipt hint
C8_Witness ==
    /\ op = "parseInvoice"
    /\ pc = "resolved"
    /\ classification # JUndef
    /\ classification.type = JStr(RECEIPT)
    /\ classification.confidence = JNum(50)
    /\ calls[2].system = <<GenericPrompt, " This is a ", "RECEIPT", " type invoice.">>

\* the extraction reply parsed to a JSON object
ExtractedObject ==
    /\ Settled
    /\ reply.k = "response"
    /\ reply.content.k = "json"
    /\ reply.content.json.k = "object"

\* C9: a failed classification call is never surfaced by parseInvoice: the
\* pipeline goes on to the extraction call with the generic instruction, an
\* error it rejects with comes from the extraction step, and when the extraction
\* reply is a JSON object it resolves with classification {UNKNOWN, 0}.
C9_ClassificationFailureDegrades ==
    (op = "parseInvoice" /\ LogClassifyError \in log) =>
        /\ ExtractionIssued
        /\ Len(calls) = 2
        /\ calls[2].system = <<GenericPrompt>>
        /\ error # ErrNoContentClassification
        /\ ExtractedObject => pc = "resolved"
        /\ pc = "resolved" =>
              result.classification =
                  [k |-> "object", type |-> JStr(UNKNOWN), confidence |-> JNum(0)]

\* C9 witness: the classification failed and the record was returned
C9_Witness ==
    /\ op = "parseInvoice"
    /\ LogClassifyError \in log
    /\ ExtractedObject
    /\ pc = "resolved"
    /\ result.invoiceNumber = JStr("INV-2023-456")

\* the single-document pipelines
Pipelines == {"parseInvoice", "parseInvoiceImageBase64"} \cup ValidatingVariants

\* C10: when the extraction call returns null or empty content, every
\* single-document pipeline rejects with 'No content returned from OpenAI' and
\* returns no record.
C10_NoContentRejects ==
    (/\ op \in Pipelines
     /\ Settled
     /\ reply.k = "response"
     /\ reply.content.k \in {"null", "empty"}) =>
        /\ pc = "rejected"
        /\ error = ErrNoContent
        /\ result = JUndef

\* C10 witness: the image pipeline rejected on empty content
C10_Witness ==
    /\ op = "parseInvoiceImageBase64"
    /\ reply.k = "response"
    /\ reply.content.k = "empty"
    /\ pc = "rejected"
    /\ error = ErrNoContent

\* the gateway calls that carry an extraction instruction
ExtractionCalls == {i \in 1..Len(calls) : calls[i].system # <<ClassifierPrompt>>}

\* the extraction call returned content that is not JSON
NotJsonReply ==
    /\ op \in Pipelines
    /\ Settled
    /\ reply.k = "response"
    /\ reply.content.k = "notjson"

\* C11: when the extraction call returns content that is not JSON, every
\* single-document pipeline rejects with the SyntaxError of the parse; no record
\* is returned and the extraction call was issued once, never again.
C11_MalformedContentRejects ==
    NotJsonReply =>
        /\ pc = "rejected"
        /\ error = ErrSyntax
        /\ result = JUndef
        /\ Cardinality(ExtractionCalls) = 1
        /\ ~ENABLED Next

\* C11 witness: parseInvoice, after a classification, rejected on content that is
\* not JSON
C11_Witness ==
    /\ NotJsonReply
    /\ op = "parseInvoice"
    /\ ~skipClassification
    /\ Len(calls) = 2
    /\ pc = "rejected"

\* parseInvoice settled on an extraction reply that is a JSON object
ParsedObject == op = "parseInvoice" /\ ExtractedObject

\* a property that is absent from the reply (or null) reads as no value
Absent(x) == x.k \in {"undefined", "null"}

\* C12: for a JSON object without invoiceNumber, vendorName and totalAmount,
\* parseInvoice resolves with invoiceNumber 'UNKNOWN', vendorName 'UNKNOWN',
\* totalAmount 0, with currency 'USD' and items [] where those are absent, and
\* the low-confidence warning is emitted.
C12_MissingFieldsDefaulted ==
    (/\ ParsedObject
     /\ Absent(reply.content.json.invoiceNumber)
     /\ Absent(reply.content.json.vendorName)
     /\ Absent(reply.content.json.totalAmount)) =>
        /\ pc = "resolved"
        /\ result.invoiceNumber = JStr("UNKNOWN")
        /\ result.vendorName = JStr("UNKNOWN")
        /\ result.totalAmount = JNum(0)
        /\ Absent(reply.content.json.currency) => result.currency = JStr("USD")
        /\ Absent(reply.content.json.items) => result.items = JArr(<<>>)
        /\ WarnMissingText \in log

\* C12 witness: an object with none of the seven fields was defaulted
C12_Witness ==
    /\ ParsedObject
    /\ reply.content.json.invoiceNumber = JUndef
    /\ reply.content.json.vendorName = JUndef
    /\ reply.content.json.totalAmount = JUndef
    /\ reply.content.json.currency = JUndef
    /\ reply.content.json.items = JUndef
    /\ pc = "resolved"
    /\ result.currency = JStr("USD")
    /\ WarnMissingText \in log

\* the required fields of InvoiceData
RequiredFields ==
    {"invoiceNumber", "invoiceDate", "vendorName", "items", "subtotal",
     "totalAmount", "currency"}

\* C13: every record parseInvoice returns for a JSON object has all required
\* fields present and not null; a subtotal absent from the reply equals the
\* record's totalAmount.
C13_RequiredFieldsPresent ==
    (ParsedObject /\ pc = "resolved") =>
        /\ \A f \in RequiredFields : ~Absent(result[f])
        /\ Absent(reply.content.json.subtotal) => result.subtotal = result.totalAmount

\* C13 witness: subtotal and totalAmount were both absent, currency was null
C13_Witness ==
    /\ ParsedObject
    /\ pc = "resolved"
    /\ reply.content.json.subtotal = JUndef
    /\ reply.content.json.totalAmount = JUndef
    /\ reply.content.json.currency = JNull
    /\ result.subtotal = JNum(0)

\* C14 as claimed: the image pipeline fills the same defaults as the text
\* pipeline: for a reply without invoiceDate and subtotal the record has the
\* current date, a subtotal equal to totalAmount, and every required field.
C14_ImageDefaultsLikeText ==
    (/\ op = "parseInvoiceImageBase64"
     /\ ExtractedObject
     /\ pc = "resolved"
     /\ Absent(reply.content.json.invoiceDate)
     /\ Absent(reply.content.json.subtotal)) =>
        /\ result.invoiceDate = Today
        /\ result.subtotal = result.totalAmount
        /\ \A f \in RequiredFields : ~Absent(result[f])

\* C15 as claimed: whatever JSON value the extraction reply parses to, the
\* default-filling of parseInvoice does not throw and a record is returned.
C15_NormalizationNeverFails ==
    (/\ op = "parseInvoice"
     /\ Settled
     /\ reply.k = "response"
     /\ reply.content.k = "json") =>
        /\ pc = "resolved"
        /\ result # JUndef

\* the record returned equals the reply on every required field
UnchangedByDefaults ==
    \A f \in RequiredFields : result[f] = reply.content.json[f]

\* C16 as claimed: for an extraction reply in which every required field is
\* present, the returned record equals the reply field for field, no
\* low-confidence warning is logged, and applying the defaults again changes
\* nothing.
C16_PresentFieldsUnchanged ==
    (/\ ParsedObject
     /\ pc = "resolved"
     /\ \A f \in RequiredFields : ~Absent(reply.content.json[f])) =>
        /\ UnchangedByDefaults
        /\ WarnMissingText \notin log
        /\ ApplyDefaults(result) = result

\* C16 (amended): for an extraction reply in which every required field is
\* truthy, the returned record equals the reply on every required field, and
\* the warning is logged exactly when the reply's invoiceNumber or vendorName
\* is itself the string 'UNKNOWN'; for every record parseInvoice returns,
\* applying the defaults again changes nothing.
C16_TruthyFieldsUnchanged ==
    /\ (/\ ParsedObject
        /\ pc = "resolved"
        /\ \A f \in RequiredFields : Truthy(reply.content.json[f])) =>
           /\ UnchangedByDefaults
           /\ WarnMissingText \in log <=>
                 \/ reply.content.json.invoiceNumber = JStr("UNKNOWN")
                 \/ reply.content.json.vendorName = JStr("UNKNOWN")
    /\ (ParsedObject /\ pc = "resolved") => ApplyDefaults(result) = result

C16_Witness ==
    /\ ParsedObject
    /\ pc = "resolved"
    /\ \A f \in RequiredFields : Truthy(reply.content.json[f])
    /\ reply.content.json.vendorName = JStr("ABC Web Services")
    /\ reply.content.json.subtotal = JNum(90)
    /\ result.subtotal = JNum(90)
    /\ WarnMissingText \notin log

\* C17: when classification is not skipped, the record parseInvoice returns
\* carries in its classification field exactly the value classifyInvoice
\* returned, whatever the extraction reply contained.
C17_ClassificationAttachedUnmodified ==
    (op = "parseInvoice" /\ ~skipClassification /\ pc = "resolved") =>
        /\ classification.k = "object"
        /\ result.classification = classification

C17_Witness ==
    /\ op = "parseInvoice"
    /\ ~skipClassification
    /\ pc = "resolved"
    /\ ExtractedObject
    /\ reply.content.json.classification = JStr("forged")
    /\ result.classification = classification
    /\ classification.type = JStr(STANDARD)

\* C18 as claimed: no single-document text pipeline rejects because a required
\* field is missing: for a JSON-object reply lacking invoiceNumber, vendorName
\* or totalAmount (or with totalAmount 0) the promise resolves with a record.
C18_NoPipelineRejectsMissingFields ==
    (/\ op \in {"parseInvoice"} \cup ValidatingVariants
     /\ ExtractedObject
     /\ MissingRequired(reply.content.json)) =>
        /\ pc = "resolved"
        /\ error # ErrMissingFields

\* the results parseDocuments resolved with
BatchResults == result.v

\* C19 as claimed: parseDocuments returns one result per input path, in input
\* order: as many results as paths, the i-th result carrying the i-th path.
C19_OneResultPerPathInOrder ==
    (op = "parseDocuments" /\ pc = "resolved") =>
        /\ Len(BatchResults) = Len(image.imagePaths)
        /\ \A i \in 1..Len(BatchResults) :
              BatchResults[i].filePath = JStr(image.imagePaths[i])

\* C20 as claimed: in a batch with a document that fails (a file that does
\* not exist), the failure is that document's error only: every other
\* document has a result with a defined classification and no error, and the
\* failing one has a result with a defined error.
C20_FailureIsolatedPerDocument ==
    (/\ op = "parseDocuments"
     /\ pc = "resolved"
     /\ \E i \in 1..Len(image.imagePaths) : image.imagePaths[i] \notin Files) =>
        \A i \in 1..Len(image.imagePaths) :
           \E j \in 1..Len(BatchResults) :
              /\ BatchResults[j].filePath = JStr(image.imagePaths[i])
              /\ IF image.imagePaths[i] \in Files
                 THEN /\ BatchResults[j].classification # JUndef
                      /\ BatchResults[j].error = JUndef
                 ELSE BatchResults[j].error # JUndef

\* C21 as claimed: parseDocuments never rejects: every failure during a batch
\* call, the failure to build the backend client included, ends up in a
\* result's error and the returned promise resolves.
C21_BatchNeverRejects ==
    (op = "parseDocuments" /\ Settled) =>
        /\ pc = "resolved"
        /\ error = ""

\* a batch result is a success: a classification and no error
BatchSuccess(r) == r.classification # JUndef /\ r.error = JUndef
\* a batch result is a failure: an error and no parsed data
BatchFailure(r) == r.error # JUndef /\ r.parsedData = JUndef

\* C22 as claimed: every batch result is either a success or a failure, never
\* both, and every input has exactly one outcome.
C22_OneOutcomePerInput ==
    (op = "parseDocuments" /\ pc = "resolved") =>
        /\ \A j \in 1..Len(BatchResults) :
              BatchSuccess(BatchResults[j]) # BatchFailure(BatchResults[j])
        /\ Len(image.imagePaths) = Len(BatchResults)

\* the state of the i-th document of a batch, as far as the batch entry point
\* shows it: DONE or FAILED once a result carries its path, PENDING before
DocumentState(i) ==
    IF pc = "resolved" /\ \E j \in 1..Len(BatchResults) :
                             /\ BatchResults[j].filePath = JStr(image.imagePaths[i])
                             /\ BatchResults[j].error = JUndef
    THEN "DONE"
    ELSE IF pc = "resolved" /\ \E j \in 1..Len(BatchResults) :
                                  /\ BatchResults[j].filePath = JStr(image.imagePaths[i])
                                  /\ BatchResults[j].error # JUndef
    THEN "FAILED"
    ELSE "PENDING"

\* C27 as claimed: once the batch call has settled, every document has ended
\* in DONE or FAILED, and no failure was raised to the batch caller.
C27_EveryDocumentEnds ==
    (op = "parseDocuments" /\ Settled) =>
        /\ \A i \in 1..Len(image.imagePaths) : DocumentState(i) \in {"DONE", "FAILED"}
        /\ pc # "rejected"

\* C26: one call of parseInvoice makes at most two gateway calls, the
\* classification call first and the extraction call last; the extraction call
\* is issued only once the classification call has returned; when a gateway
\* call returns no call is issued again: the return of the extraction call
\* settles the promise, with the gateway's failure if the call threw, and a
\* settled call takes no further step.
C26_TwoSequentialCallsNoRetry ==
    [][(op' = "parseInvoice") =>
          /\ ~Settled
          /\ Len(calls') <= 2
          /\ ClassificationCalls' \subseteq {1}
          /\ ExtractionCalls' \subseteq {Len(calls')}
          /\ (pc' = "classifying") => ExtractionCalls' = {}
          /\ (pc = "classifying" /\ pc' = "extracting") =>
                /\ calls' = Append(calls, calls'[2])
                /\ ExtractionCalls' = {2}
          /\ (pc = "extracting") =>
                /\ calls' = calls
                /\ Settled'
                /\ (reply'.k = "throws") => (pc' = "rejected" /\ error' = ErrGateway)
      ]_vars

C26_Witness ==
    /\ op = "parseInvoice"
    /\ ~skipClassification
    /\ pc = "rejected"
    /\ reply.k = "throws"
    /\ error = ErrGateway
    /\ Len(calls) = 2
    /\ ClassificationCalls = {1}
    /\ ExtractionCalls = {2}

\* C28 as claimed: whenever a record returned by parseInvoice has a
\* classification field, its value is the one the classifier produced (type in
\* the enum, confidence in [0,1]); with skipClassification = true the record
\* has no classification field, whatever the extraction reply contained.
C28_ClassificationOnlyFromClassifier ==
    (op = "parseInvoice" /\ pc = "resolved") =>
        /\ (result.classification # JUndef) =>
              /\ result.classification = classification
              /\ result.classification.k = "object"
              /\ WellFormedClassification(result.classification)
        /\ skipClassification => result.classification = JUndef

\* what parseInvoiceImageBase64 does with its arguments, given that the
\* backend client could be built or not
ImageSourceRule ==
    /\ Truthy(image.base64Image) =>
          /\ fileReads = <<>>
          /\ Len(calls) = 1
          /\ calls[1].user = <<"image",
                               IF Truthy(image.mimeType) THEN image.mimeType.v
                               ELSE "image/jpeg",
                               <<"inline", image.base64Image.v>>>>
    /\ (fileReads # <<>>) =>
          /\ ~Truthy(image.base64Image)
          /\ Truthy(image.imagePath)
          /\ fileReads = <<image.imagePath.v>>
    /\ (~Truthy(image.base64Image) /\ ~Truthy(image.imagePath)) =>
          /\ pc = "rejected"
          /\ error = ErrNoImage
          /\ calls = <<>>

\* the image pipeline makes at most one gateway call and never classifies
ImageOneCall ==
    /\ Len(calls) <= 1
    /\ ClassificationCalls = {}
    /\ classification = JUndef

\* C29 as claimed: parseInvoiceImageBase64 always uses a non-empty base64Image
\* (with mimeType, or 'image/jpeg') and then reads no file; it reads the file
\* only when base64Image is absent and imagePath is given; with neither it
\* rejects with 'Either base64Image or imagePath must be provided' before any
\* gateway call; it makes at most one gateway call and never classifies.
C29_ImageSourceDeterministic ==
    (op = "parseInvoiceImageBase64") => (ImageSourceRule /\ ImageOneCall)

\* C29 (amended): the same, when an API key is available (in the environment
\* or after the .env file was loaded); without a key the call rejects with
\* 'OpenAI API key is required...' whatever its arguments, reading no file and
\* making no gateway call.
C29_ImageSourceDeterministicWithKey ==
    (op = "parseInvoiceImageBase64") =>
        /\ ImageOneCall
        /\ apiKeySet => ImageSourceRule
        /\ ~apiKeySet => /\ pc = "rejected"
                         /\ error = ErrApiKey
                         /\ calls = <<>>
                         /\ fileReads = <<>>

C29_Witness ==
    /\ op = "parseInvoiceImageBase64"
    /\ apiKeySet
    /\ Truthy(image.base64Image)
    /\ Truthy(image.imagePath)
    /\ image.mimeType = JUndef
    /\ fileReads = <<>>
    /\ Len(calls) = 1
    /\ calls[1].user[2] = "image/jpeg"
    /\ pc = "resolved"

\* the request served is not a POST, or its body lacks a non-empty string
\* invoiceText / base64Image, or carries a truthy mimeType that is not a string
MissingEmptyOrNoString(x) == x.k # "string" \/ x.v = ""

MalformedRequest ==
    /\ req # NoRequest
    /\ \/ req.method # "POST"
       \/ req.body.k = "null"
       \/ req.handler = "parse-invoice" /\ MissingEmptyOrNoString(req.body.invoiceText)
       \/ /\ req.handler = "parse-invoice-image"
          /\ \/ MissingEmptyOrNoString(req.body.base64Image)
             \/ req.body.mimeType.k \in {"number", "boolean", "array", "object"}
                   /\ Truthy(req.body.mimeType)

\* the response sent is the failure envelope {success: false, error: string}
FailureEnvelope ==
    /\ res # NoResponse
    /\ DOMAIN res.body = {"success", "error"}
    /\ res.body.success = FALSE
    /\ res.body.error \in STRING

\* the response sent is the success envelope {success: true, data}
SuccessEnvelope ==
    /\ res # NoResponse
    /\ DOMAIN res.body = {"success", "data"}
    /\ res.body.success = TRUE

\* C24: both handlers answer a malformed request with {success: false, error}
\* without reaching the core: no call of parseInvoice / parseInvoiceImageBase64,
\* no gateway call, no file read.
C24_MalformedInputStopsAtHandler ==
    MalformedRequest =>
        /\ pc = "responded"
        /\ FailureEnvelope
        /\ res.status \in {400, 405, 500}
        /\ op = "none"
        /\ calls = <<>>
        /\ fileReads = <<>>

C24_Witness ==
    /\ req # NoRequest
    /\ req.handler = "parse-invoice-image"
    /\ req.method = "POST"
    /\ req.body.k = "object"
    /\ req.body.base64Image = JStr("iVBORw0KGgo=")
    /\ req.body.mimeType = JNum(1)
    /\ res.status = 400
    /\ res.body.error = ErrMimeType
    /\ calls = <<>>

\* a well-formed request was served
ServedRequest == req # NoRequest /\ ~MalformedRequest

\* the envelope part of C25: once the handler is done a response was sent, it
\* is one of the two envelopes, and success: true carries the record the core
\* returned
UniformEnvelope ==
    (req # NoRequest /\ pc \in {"responded", "resolved", "rejected"}) =>
        /\ SuccessEnvelope \/ FailureEnvelope
        /\ SuccessEnvelope <=> pc = "resolved"
        /\ SuccessEnvelope => (res.status = 200 /\ res.body.data = result)
        /\ (pc = "rejected") => res.body.error = error

\* C25 as claimed: every response is {success: true, data} or {success: false,
\* error}; success: true only with the record the core returned; whenever the
\* core or the backend fails, the failure of createOpenAIClient included, the
\* error field is the failure's own message.
C25_EnvelopeAndVerbatimError ==
    /\ UniformEnvelope
    /\ (ServedRequest /\ ~apiKeySet) => res.body.error = ErrApiKey

\* C25 (amended): the same, except that the text handler reports the failure
\* of createOpenAIClient with its own message 'Failed to initialize OpenAI
\* client...' and status 500, while the image handler passes the message of
\* createOpenAIClient on.
C25_EnvelopeAndErrorMessage ==
    /\ UniformEnvelope
    /\ (ServedRequest /\ ~apiKeySet) =>
          /\ res.status = 500
          /\ res.body.error = IF req.handler = "parse-invoice" THEN ErrInitClient
                              ELSE ErrApiKey

C25_Witness ==
    /\ ServedRequest
    /\ req.handler = "parse-invoice"
    /\ pc = "rejected"
    /\ error = ErrSyntax
    /\ res.status = 500
    /\ res.body.error = ErrSyntax

\* C30 as claimed: the result shown belongs to the image currently selected:
\* when the request that settles was sent for an image other than the one now
\* selected, its response sets neither invoiceResult nor parsingError; and
\* parsingError and invoiceResult are never both non-null.
C30_ResultBelongsToSelectedImage ==
    [][/\ (/\ page.inflight # NoRequestInFlight
           /\ page'.inflight = NoRequestInFlight
           /\ page.inflight.file # page.selected) =>
              /\ page'.invoiceResult = JNull
              /\ page'.parsingError = Null
       /\ (page'.invoiceResult # JNull) => page'.invoiceResult.of = page'.selected
       /\ ~(page'.invoiceResult # JNull /\ page'.parsingError # Null)
      ]_vars

====
